---- MODULE Spec2Model ----
(***************************************************************************)
(* CoordinateConversionOptions (ArcGIS Runtime Toolkit for Qt): an         *)
(* observable record of coordinate-notation formatting options, the        *)
(* string <-> CoordinateType helpers, and the QQmlListProperty callbacks    *)
(* that bind a list of options owned by a CoordinateConversionController.  *)
(***************************************************************************)
EXTENDS Integers, Sequences, FiniteSets, TLC

(* ------------------------------------------------------------------ *)
(* Enumerations and the static strings                                 *)
(* ------------------------------------------------------------------ *)

CoordinateType ==
  { "CoordinateTypeGars", "CoordinateTypeGeoRef", "CoordinateTypeLatLon",
    "CoordinateTypeMgrs", "CoordinateTypeUsng", "CoordinateTypeUtm" }

\* values a CoordinateType variable can hold that are none of the six
\* enumerators (an enum can carry any value of its underlying type)
OtherCoordinateTypeValues ==
  { "static_cast<CoordinateType>(-1)", "static_cast<CoordinateType>(6)" }

MgrsConversionMode ==
  { "MgrsConversionModeAutomatic", "MgrsConversionModeNew180InZone01",
    "MgrsConversionModeNew180InZone60", "MgrsConversionModeOld180InZone01",
    "MgrsConversionModeOld180InZone60" }

UtmConversionMode ==
  { "UtmConversionModeLatitudeBandIndicators",
    "UtmConversionModeNorthSouthIndicators" }

LatitudeLongitudeFormat ==
  { "LatitudeLongitudeFormatDecimalDegrees",
    "LatitudeLongitudeFormatDegreesDecimalMinutes",
    "LatitudeLongitudeFormatDegreesMinutesSeconds" }

s_gars   == "Gars"
s_georef == "GeoRef"
s_latlon == "LatLon"
s_mgrs   == "Mgrs"
s_usng   == "Usng"
s_utm    == "Utm"

(* ------------------------------------------------------------------ *)
(* Inputs                                                              *)
(* ------------------------------------------------------------------ *)

\* display labels handed to setName; the empty string is the label of a
\* freshly constructed instance
NameInputs == { "", "Grid" }

\* integers handed to setPrecision / setDecimalPlaces: below every
\* documented range, inside every documented range, above every
\* documented range (precision 0..8 or 0..9, decimalPlaces 0..16)
IntInputs == { -1, 8, 99 }

\* strings handed to stringToCoordinateType
StringInputs ==
  { "Gars", "GeoRef", "LatLon", "Mgrs", "Usng", "Utm",
    "", "bogus", "mgrs", "MGRS", "gars", "georef", "latlon", "usng", "UTM",
    "Mgrs ", "CoordinateTypeMgrs" }

VARIABLES
  m_outputMode,          \* CoordinateType
  m_name,                \* QString
  m_addSpaces,           \* bool
  m_precision,           \* int
  m_decimalPlaces,       \* int
  m_mgrsConversionMode,  \* MgrsConversionMode
  m_latLonFormat,        \* LatitudeLongitudeFormat
  m_utmConversionMode,   \* UtmConversionMode
  m_options,             \* the controller's QList<CoordinateConversionOptions*>
  call,                  \* the most recent call: [op, arg]
  ret,                   \* what the most recent call returned
  emitted,               \* signals emitted during the most recent call, in order,
                         \* each with what a directly connected slot read
  controllerCalls,       \* calls the most recent call made on the controller
  lastSet                \* per property: <<>> or <<v>>, v the last value passed to its setter

fields == << m_outputMode, m_name, m_addSpaces, m_precision, m_decimalPlaces,
             m_mgrsConversionMode, m_latLonFormat, m_utmConversionMode >>

vars == << m_outputMode, m_name, m_addSpaces, m_precision, m_decimalPlaces,
           m_mgrsConversionMode, m_latLonFormat, m_utmConversionMode,
           m_options, call, ret, emitted, controllerCalls, lastSet >>

Properties ==
  { "outputMode", "name", "addSpaces", "precision", "decimalPlaces",
    "mgrsConversionMode", "latLonFormat", "utmConversionMode" }

\* the value a void function returns
Void == "void"

(* ------------------------------------------------------------------ *)
(* Getters                                                             *)
(* ------------------------------------------------------------------ *)

outputMode         == m_outputMode
name               == m_name
addSpaces          == m_addSpaces
precision          == m_precision
decimalPlaces      == m_decimalPlaces
mgrsConversionMode == m_mgrsConversionMode
latLonFormat       == m_latLonFormat
utmConversionMode  == m_utmConversionMode

\* P() for the property named p
Getter(p) ==
  CASE p = "outputMode"         -> <<outputMode>>
    [] p = "name"               -> <<name>>
    [] p = "addSpaces"          -> <<addSpaces>>
    [] p = "precision"          -> <<precision>>
    [] p = "decimalPlaces"      -> <<decimalPlaces>>
    [] p = "mgrsConversionMode" -> <<mgrsConversionMode>>
    [] p = "latLonFormat"       -> <<latLonFormat>>
    [] p = "utmConversionMode"  -> <<utmConversionMode>>

(* ------------------------------------------------------------------ *)
(* Construction                                                        *)
(* ------------------------------------------------------------------ *)

nullptr == 0

\* The constructor body is empty; the members carry their documented
\* defaults.  No default is documented for addSpaces, so either value is
\* a possible initial one.  The controller's list starts empty.
Init ==
  /\ m_outputMode = "CoordinateTypeUsng"
  /\ m_name = ""
  /\ m_addSpaces \in BOOLEAN
  /\ m_precision = 8
  /\ m_decimalPlaces = 6
  /\ m_mgrsConversionMode = "MgrsConversionModeAutomatic"
  /\ m_latLonFormat = "LatitudeLongitudeFormatDecimalDegrees"
  /\ m_utmConversionMode = "UtmConversionModeLatitudeBandIndicators"
  /\ m_options = << >>
  /\ call = [op |-> "CoordinateConversionOptions", arg |-> << >>]
  /\ ret = Void
  /\ emitted = << >>
  /\ controllerCalls = << >>
  /\ lastSet = [p \in Properties |-> << >>]

(* ------------------------------------------------------------------ *)
(* Setters                                                             *)
(* ------------------------------------------------------------------ *)

\* "emit sig()" is a synchronous call of every connected slot; the slot
\* modelled here reads the getter of the property p the signal belongs to,
\* at the moment the signal is emitted, i.e. after the assignment that
\* precedes the emit statement.
Emit(sig, p) == << [signal |-> sig, seen |-> Getter(p)'] >>

\* bookkeeping every setter shares: the call made, its void result, no
\* controller involvement, and the value last handed to the setter of p
SetterCalled(op, p, v) ==
  /\ call' = [op |-> op, arg |-> <<v>>]
  /\ ret' = Void
  /\ controllerCalls' = << >>
  /\ lastSet' = [lastSet EXCEPT ![p] = <<v>>]
  /\ UNCHANGED m_options

\* variant: changing the notation puts the notation-specific settings back
\* to their defaults
setOutputMode_Resets(outputMode_) ==
  /\ m_outputMode' = outputMode_
  /\ m_precision' = 8
  /\ m_mgrsConversionMode' = "MgrsConversionModeAutomatic"
  /\ emitted' = Emit("outputModeChanged", "outputMode")
  /\ UNCHANGED << m_name, m_addSpaces, m_decimalPlaces, m_latLonFormat,
                  m_utmConversionMode >>
  /\ SetterCalled("setOutputMode", "outputMode", outputMode_)

setOutputMode(outputMode_) ==
  /\ m_outputMode' = outputMode_
  /\ emitted' = Emit("outputModeChanged", "outputMode")
  /\ UNCHANGED << m_name, m_addSpaces, m_precision, m_decimalPlaces,
                  m_mgrsConversionMode, m_latLonFormat, m_utmConversionMode >>
  /\ SetterCalled("setOutputMode", "outputMode", outputMode_)

\* variant: the signal is emitted only when the value changes
setName_Dedup(name_) ==
  /\ IF m_name = name_
       THEN UNCHANGED m_name /\ emitted' = << >>
       ELSE m_name' = name_ /\ emitted' = Emit("nameChanged", "name")
  /\ UNCHANGED << m_outputMode, m_addSpaces, m_precision, m_decimalPlaces,
                  m_mgrsConversionMode, m_latLonFormat, m_utmConversionMode >>
  /\ SetterCalled("setName", "name", name_)

setName(name_) ==
  /\ m_name' = name_
  /\ emitted' = Emit("nameChanged", "name")
  /\ UNCHANGED << m_outputMode, m_addSpaces, m_precision, m_decimalPlaces,
                  m_mgrsConversionMode, m_latLonFormat, m_utmConversionMode >>
  /\ SetterCalled("setName", "name", name_)

setAddSpaces(addSpaces_) ==
  /\ m_addSpaces' = addSpaces_
  /\ emitted' = Emit("addSpacesChanged", "addSpaces")
  /\ UNCHANGED << m_outputMode, m_name, m_precision, m_decimalPlaces,
                  m_mgrsConversionMode, m_latLonFormat, m_utmConversionMode >>
  /\ SetterCalled("setAddSpaces", "addSpaces", addSpaces_)

\* variant: the value is clamped to the documented range 0..9
setPrecision_Clamped(precision_) ==
  /\ m_precision' = IF precision_ < 0 THEN 0
                    ELSE IF precision_ > 9 THEN 9 ELSE precision_
  /\ emitted' = Emit("precisionChanged", "precision")
  /\ UNCHANGED << m_outputMode, m_name, m_addSpaces, m_decimalPlaces,
                  m_mgrsConversionMode, m_latLonFormat, m_utmConversionMode >>
  /\ SetterCalled("setPrecision", "precision", precision_)

\* variant: the signal is emitted before the value is stored
setPrecision_EmitFirst(precision_) ==
  /\ emitted' = << [signal |-> "precisionChanged", seen |-> Getter("precision")] >>
  /\ m_precision' = precision_
  /\ UNCHANGED << m_outputMode, m_name, m_addSpaces, m_decimalPlaces,
                  m_mgrsConversionMode, m_latLonFormat, m_utmConversionMode >>
  /\ SetterCalled("setPrecision", "precision", precision_)

setPrecision(precision_) ==
  /\ m_precision' = precision_
  /\ emitted' = Emit("precisionChanged", "precision")
  /\ UNCHANGED << m_outputMode, m_name, m_addSpaces, m_decimalPlaces,
                  m_mgrsConversionMode, m_latLonFormat, m_utmConversionMode >>
  /\ SetterCalled("setPrecision", "precision", precision_)

\* variant: the value is written to the precision member
setDecimalPlaces_IntoPrecision(decimalPlaces_) ==
  /\ m_precision' = decimalPlaces_
  /\ UNCHANGED << m_outputMode, m_name, m_addSpaces, m_decimalPlaces,
                  m_mgrsConversionMode, m_latLonFormat, m_utmConversionMode >>
  /\ emitted' = Emit("decimalPlacesChanged", "decimalPlaces")
  /\ SetterCalled("setDecimalPlaces", "decimalPlaces", decimalPlaces_)

setDecimalPlaces(decimalPlaces_) ==
  /\ m_decimalPlaces' = decimalPlaces_
  /\ emitted' = Emit("decimalPlacesChanged", "decimalPlaces")
  /\ UNCHANGED << m_outputMode, m_name, m_addSpaces, m_precision,
                  m_mgrsConversionMode, m_latLonFormat, m_utmConversionMode >>
  /\ SetterCalled("setDecimalPlaces", "decimalPlaces", decimalPlaces_)

setMgrsConversionMode(mgrsConversionMode_) ==
  /\ m_mgrsConversionMode' = mgrsConversionMode_
  /\ emitted' = Emit("mgrsConversionModeChanged", "mgrsConversionMode")
  /\ UNCHANGED << m_outputMode, m_name, m_addSpaces, m_precision,
                  m_decimalPlaces, m_latLonFormat, m_utmConversionMode >>
  /\ SetterCalled("setMgrsConversionMode", "mgrsConversionMode", mgrsConversionMode_)

setLatLonFormat(latLonFormat_) ==
  /\ m_latLonFormat' = latLonFormat_
  /\ emitted' = Emit("latLonFormatChanged", "latLonFormat")
  /\ UNCHANGED << m_outputMode, m_name, m_addSpaces, m_precision,
                  m_decimalPlaces, m_mgrsConversionMode, m_utmConversionMode >>
  /\ SetterCalled("setLatLonFormat", "latLonFormat", latLonFormat_)

setUtmConversionMode(utmConversionMode_) ==
  /\ m_utmConversionMode' = utmConversionMode_
  /\ emitted' = Emit("utmConversionModeChanged", "utmConversionMode")
  /\ UNCHANGED << m_outputMode, m_name, m_addSpaces, m_precision,
                  m_decimalPlaces, m_mgrsConversionMode, m_latLonFormat >>
  /\ SetterCalled("setUtmConversionMode", "utmConversionMode", utmConversionMode_)

(* ------------------------------------------------------------------ *)
(* String <-> CoordinateType helpers                                   *)
(* ------------------------------------------------------------------ *)

\* variant: an unrecognised string yields the default notation, Usng
stringToCoordinateType_FallbackUsng(type) ==
  IF type = s_gars THEN "CoordinateTypeGars"
  ELSE IF type = s_georef THEN "CoordinateTypeGeoRef"
  ELSE IF type = s_latlon THEN "CoordinateTypeLatLon"
  ELSE IF type = s_mgrs THEN "CoordinateTypeMgrs"
  ELSE IF type = s_usng THEN "CoordinateTypeUsng"
  ELSE IF type = s_utm THEN "CoordinateTypeUtm"
  ELSE "CoordinateTypeUsng"

stringToCoordinateType(type) ==
  IF type = s_gars THEN "CoordinateTypeGars"
  ELSE IF type = s_georef THEN "CoordinateTypeGeoRef"
  ELSE IF type = s_latlon THEN "CoordinateTypeLatLon"
  ELSE IF type = s_mgrs THEN "CoordinateTypeMgrs"
  ELSE IF type = s_usng THEN "CoordinateTypeUsng"
  ELSE IF type = s_utm THEN "CoordinateTypeUtm"
  ELSE "CoordinateTypeLatLon"

\* variant: a value outside the enumeration yields "LatLon"
coordinateTypeToString_DefaultLatLon(type) ==
  CASE type = "CoordinateTypeGars"   -> s_gars
    [] type = "CoordinateTypeGeoRef" -> s_georef
    [] type = "CoordinateTypeLatLon" -> s_latlon
    [] type = "CoordinateTypeMgrs"   -> s_mgrs
    [] type = "CoordinateTypeUsng"   -> s_usng
    [] type = "CoordinateTypeUtm"    -> s_utm
    [] OTHER                         -> s_latlon

\* variant: the Usng case returns the Utm string
coordinateTypeToString_UsngAsUtm(type) ==
  CASE type = "CoordinateTypeGars"   -> s_gars
    [] type = "CoordinateTypeGeoRef" -> s_georef
    [] type = "CoordinateTypeLatLon" -> s_latlon
    [] type = "CoordinateTypeMgrs"   -> s_mgrs
    [] type = "CoordinateTypeUsng"   -> s_utm
    [] type = "CoordinateTypeUtm"    -> s_utm
    [] OTHER                         -> ""

\* QString() is the null string, which compares equal to ""
coordinateTypeToString(type) ==
  CASE type = "CoordinateTypeGars"   -> s_gars
    [] type = "CoordinateTypeGeoRef" -> s_georef
    [] type = "CoordinateTypeLatLon" -> s_latlon
    [] type = "CoordinateTypeMgrs"   -> s_mgrs
    [] type = "CoordinateTypeUsng"   -> s_usng
    [] type = "CoordinateTypeUtm"    -> s_utm
    [] OTHER                         -> ""

\* variant: the names in another order
coordinateTypeNames_Reordered ==
  << s_latlon, s_gars, s_georef, s_mgrs, s_usng, s_utm >>

coordinateTypeNames ==
  << s_gars, s_georef, s_latlon, s_mgrs, s_usng, s_utm >>

\* bookkeeping of a const member function: nothing stored, nothing
\* emitted, the controller not involved
ConstCalled(op, arg, result) ==
  /\ call' = [op |-> op, arg |-> arg]
  /\ ret' = result
  /\ emitted' = << >>
  /\ controllerCalls' = << >>
  /\ UNCHANGED << fields, m_options, lastSet >>

CallStringToCoordinateType(type) ==
  ConstCalled("stringToCoordinateType", <<type>>, stringToCoordinateType(type))

CallCoordinateTypeToString(type) ==
  ConstCalled("coordinateTypeToString", <<type>>, coordinateTypeToString(type))

CallCoordinateTypeNames ==
  ConstCalled("coordinateTypeNames", << >>, coordinateTypeNames)

(* ------------------------------------------------------------------ *)
(* QQmlListProperty callbacks                                          *)
(* property->object is the controller, property->data its list         *)
(* ------------------------------------------------------------------ *)

\* the option objects that exist, by address
NumInstances == 3
Instances == 1 .. NumInstances

\* cap on the length of the controller's list
MaxOptions == 3

\* indices handed to listAt: one below the list, every position, one above
IndexInputs == -1 .. MaxOptions

\* CoordinateConversionController::addOption / clearOptions: the
\* controller's own mutation of its list
addOption(option) == m_options' = Append(m_options, option)

clearOptions == m_options' = << >>

\* QList<T>::value(i): the element at i, or a default-constructed T
\* when i is out of bounds
QListValue(list, i) ==
  IF 0 <= i /\ i < Len(list) THEN list[i + 1] ELSE nullptr

\* QList<T>::count()
QListCount(list) == Len(list)

\* bookkeeping of a static callback: no option object is involved
CallbackCalled(op, arg, result) ==
  /\ call' = [op |-> op, arg |-> arg]
  /\ ret' = result
  /\ emitted' = << >>
  /\ UNCHANGED << fields, lastSet >>

\* variant: the callback appends to property->data itself
listAppend_Direct(value) ==
  /\ Len(m_options) < MaxOptions
  /\ controllerCalls' = << >>
  /\ m_options' = Append(m_options, value)
  /\ CallbackCalled("listAppend", <<value>>, Void)

listAppend(value) ==
  /\ Len(m_options) < MaxOptions
  /\ controllerCalls' = << [method |-> "addOption", arg |-> <<value>>] >>
  /\ addOption(value)
  /\ CallbackCalled("listAppend", <<value>>, Void)

listAt(index) ==
  /\ controllerCalls' = << >>
  /\ UNCHANGED m_options
  /\ CallbackCalled("listAt", <<index>>, QListValue(m_options, index))

listCount ==
  /\ controllerCalls' = << >>
  /\ UNCHANGED m_options
  /\ CallbackCalled("listCount", << >>, QListCount(m_options))

listClear ==
  /\ controllerCalls' = << [method |-> "clearOptions", arg |-> << >>] >>
  /\ clearOptions
  /\ CallbackCalled("listClear", << >>, Void)

(* ------------------------------------------------------------------ *)
(* Specifications                                                      *)
(* ------------------------------------------------------------------ *)

\* one option object driven through its properties
Next ==
  \/ \E v \in CoordinateType : setOutputMode(v)
  \/ \E v \in NameInputs : setName(v)
  \/ \E v \in BOOLEAN : setAddSpaces(v)
  \/ \E v \in IntInputs : setPrecision(v)
  \/ \E v \in IntInputs : setDecimalPlaces(v)
  \/ \E v \in MgrsConversionMode : setMgrsConversionMode(v)
  \/ \E v \in LatitudeLongitudeFormat : setLatLonFormat(v)
  \/ \E v \in UtmConversionMode : setUtmConversionMode(v)
  \/ CallCoordinateTypeNames

Spec == Init /\ [][Next]_vars

\* the conversion helpers, called on an object whose notation and label
\* are being edited
NextConv ==
  \/ \E s \in StringInputs : CallStringToCoordinateType(s)
  \/ \E t \in CoordinateType \cup OtherCoordinateTypeValues :
       CallCoordinateTypeToString(t)
  \/ CallCoordinateTypeNames
  \/ \E v \in CoordinateType : setOutputMode(v)
  \/ \E v \in NameInputs : setName(v)

SpecConv == Init /\ [][NextConv]_vars

\* the list binding of a controller
NextList ==
  \/ \E o \in Instances : listAppend(o)
  \/ \E i \in IndexInputs : listAt(i)
  \/ listCount
  \/ listClear

SpecList == Init /\ [][NextList]_vars

(* ------------------------------------------------------------------ *)
(* Vocabulary of the properties                                        *)
(* ------------------------------------------------------------------ *)

SetterOf ==
  [ outputMode         |-> "setOutputMode",
    name               |-> "setName",
    addSpaces          |-> "setAddSpaces",
    precision          |-> "setPrecision",
    decimalPlaces      |-> "setDecimalPlaces",
    mgrsConversionMode |-> "setMgrsConversionMode",
    latLonFormat       |-> "setLatLonFormat",
    utmConversionMode  |-> "setUtmConversionMode" ]

SignalOf ==
  [ outputMode         |-> "outputModeChanged",
    name               |-> "nameChanged",
    addSpaces          |-> "addSpacesChanged",
    precision          |-> "precisionChanged",
    decimalPlaces      |-> "decimalPlacesChanged",
    mgrsConversionMode |-> "mgrsConversionModeChanged",
    latLonFormat       |-> "latLonFormatChanged",
    utmConversionMode  |-> "utmConversionModeChanged" ]

\* the table of canonical strings
CanonicalString ==
  [ CoordinateTypeGars   |-> "Gars",
    CoordinateTypeGeoRef |-> "GeoRef",
    CoordinateTypeLatLon |-> "LatLon",
    CoordinateTypeMgrs   |-> "Mgrs",
    CoordinateTypeUsng   |-> "Usng",
    CoordinateTypeUtm    |-> "Utm" ]

CanonicalStrings == { CanonicalString[t] : t \in CoordinateType }

(* ------------------------------------------------------------------ *)
(* Properties                                                          *)
(* ------------------------------------------------------------------ *)

\* C1: for every property, once its setter has been called, the getter
\* returns the value passed to the most recent call of that setter,
\* whatever other setters were called since.
GetterReturnsLastSet ==
  \A p \in Properties : Len(lastSet[p]) = 1 => Getter(p) = lastSet[p]

GetterReturnsLastSetWitness ==
  /\ call.op = "setName"
  /\ lastSet["precision"] = << -1 >> /\ precision = -1
  /\ lastSet["outputMode"] = << "CoordinateTypeMgrs" >>
  /\ outputMode = "CoordinateTypeMgrs"
  /\ lastSet["addSpaces"] = << FALSE >> /\ addSpaces = FALSE

\* C2: a setter call emits the changed signal of its own property exactly
\* once and no other signal, also when the value passed is the value the
\* property already holds.
SetterEmitsOwnSignalOnce ==
  \A p \in Properties :
    call.op = SetterOf[p] =>
      /\ Len(emitted) = 1
      /\ emitted[1].signal = SignalOf[p]

\* reached by setPrecision(8) on a fresh object, whose precision is 8
SetterEmitsOwnSignalOnceWitness ==
  /\ call = [op |-> "setPrecision", arg |-> << 8 >>]
  /\ \A p \in Properties \ {"precision"} : lastSet[p] = << >>
  /\ Len(emitted) = 1
  /\ emitted[1].signal = "precisionChanged"

\* C3: a setter leaves the stored value of every other property as it
\* was; in particular setOutputMode resets nothing.
SetterKeepsOtherProperties ==
  [][ \A p \in Properties :
        (\E q \in Properties \ {p} : call'.op = SetterOf[q])
          => Getter(p)' = Getter(p) ]_vars

\* outputMode has just been set (back) to Mgrs while the MGRS mode and the
\* precision hold the non-default values set before
SetterKeepsOtherPropertiesWitness ==
  /\ call = [op |-> "setOutputMode", arg |-> << "CoordinateTypeMgrs" >>]
  /\ lastSet["mgrsConversionMode"] = << "MgrsConversionModeOld180InZone01" >>
  /\ mgrsConversionMode = "MgrsConversionModeOld180InZone01"
  /\ lastSet["precision"] = << 99 >>
  /\ precision = 99

\* C4: setPrecision and setDecimalPlaces accept every integer under every
\* outputMode: the call is possible, returns nothing but void, and the
\* getter returns the integer as given.
NoRangeValidation ==
  /\ \A v \in IntInputs : ENABLED setPrecision(v) /\ ENABLED setDecimalPlaces(v)
  /\ call.op = "setPrecision" => ret = Void /\ << precision >> = call.arg
  /\ call.op = "setDecimalPlaces" => ret = Void /\ << decimalPlaces >> = call.arg

NoRangeValidationWitness ==
  /\ call = [op |-> "setDecimalPlaces", arg |-> << 99 >>]
  /\ decimalPlaces = 99
  /\ precision = -1
  /\ lastSet["precision"] = << -1 >>
  /\ outputMode = "CoordinateTypeMgrs"

\* C5: stringToCoordinateType returns the type whose canonical string is
\* exactly the argument, and LatLon for every other string.
StringToTypeTable ==
  call.op = "stringToCoordinateType" =>
    IF call.arg[1] \in CanonicalStrings
      THEN ret \in CoordinateType /\ CanonicalString[ret] = call.arg[1]
      ELSE ret = "CoordinateTypeLatLon"

StringToTypeTableWitness ==
  /\ call = [op |-> "stringToCoordinateType", arg |-> << "mgrs" >>]
  /\ ret = "CoordinateTypeLatLon"

\* C6: coordinateTypeToString returns the canonical string of each of the
\* six types and the empty string for any other value.
TypeToStringTable ==
  call.op = "coordinateTypeToString" =>
    IF call.arg[1] \in CoordinateType
      THEN ret = CanonicalString[call.arg[1]]
      ELSE ret = ""

TypeToStringTableWitness ==
  /\ call.op = "coordinateTypeToString"
  /\ call.arg[1] \in OtherCoordinateTypeValues
  /\ ret = ""

\* C7: the string coordinateTypeToString returns for one of the six types
\* converts back to that type, and no two of the six types share a string.
RoundTrip ==
  /\ (call.op = "coordinateTypeToString" /\ call.arg[1] \in CoordinateType)
       => stringToCoordinateType(ret) = call.arg[1]
  /\ \A t, u \in CoordinateType :
       coordinateTypeToString(t) = coordinateTypeToString(u) => t = u
  /\ \A t \in CoordinateType :
       stringToCoordinateType(coordinateTypeToString(t)) = t

RoundTripWitness ==
  /\ call = [op |-> "coordinateTypeToString", arg |-> << "CoordinateTypeUtm" >>]
  /\ ret = "Utm"
  /\ stringToCoordinateType(ret) = "CoordinateTypeUtm"

\* C8: coordinateTypeNames returns the six canonical strings in the fixed
\* order Gars, GeoRef, LatLon, Mgrs, Usng, Utm, whatever the properties
\* hold and whatever setters were called before.
TypeNamesFixed ==
  /\ coordinateTypeNames = << "Gars", "GeoRef", "LatLon", "Mgrs", "Usng", "Utm" >>
  /\ call.op = "coordinateTypeNames" =>
       ret = << "Gars", "GeoRef", "LatLon", "Mgrs", "Usng", "Utm" >>

TypeNamesFixedWitness ==
  /\ call.op = "coordinateTypeNames"
  /\ ret = << "Gars", "GeoRef", "LatLon", "Mgrs", "Usng", "Utm" >>
  /\ outputMode = "CoordinateTypeGars"
  /\ lastSet["outputMode"] = << "CoordinateTypeGars" >>
  /\ precision = 99
  /\ name = "Grid"

\* C9: listAppend makes exactly one addOption(v) call on the controller
\* and listClear exactly one clearOptions() call, the list changing only
\* as that one controller call changes it; listCount returns the length
\* of the list and listAt(i), 0 <= i < count, its i-th element, and
\* neither changes the list, any option, or calls the controller.
ListCallbacksDelegate ==
  [][ /\ call'.op = "listAppend" =>
           /\ controllerCalls' = << [method |-> "addOption", arg |-> call'.arg] >>
           /\ m_options' = Append(m_options, call'.arg[1])
      /\ call'.op = "listClear" =>
           /\ controllerCalls' = << [method |-> "clearOptions", arg |-> << >>] >>
           /\ m_options' = << >>
      /\ call'.op = "listCount" =>
           /\ ret' = Len(m_options)
           /\ controllerCalls' = << >>
           /\ UNCHANGED << m_options, fields >>
      /\ call'.op = "listAt" =>
           /\ (0 <= call'.arg[1] /\ call'.arg[1] < Len(m_options))
                => ret' = m_options[call'.arg[1] + 1]
           /\ controllerCalls' = << >>
           /\ UNCHANGED << m_options, fields >>
    ]_vars

ListCallbacksDelegateWitness ==
  /\ call = [op |-> "listAt", arg |-> << 1 >>]
  /\ m_options = << 1, 2 >>
  /\ ret = 2

\* C10: the value is stored before the signal is emitted and the signal is
\* delivered within the call: a slot reading P() on P's changed signal
\* reads the value just passed to setP, and has run when setP returns.
SlotSeesNewValue ==
  \A p \in Properties :
    call.op = SetterOf[p] =>
      /\ emitted # << >>
      /\ \A i \in 1 .. Len(emitted) :
           emitted[i].signal = SignalOf[p] => emitted[i].seen = call.arg

\* reached by setPrecision(99) on a fresh object, whose precision was 8
SlotSeesNewValueWitness ==
  /\ call = [op |-> "setPrecision", arg |-> << 99 >>]
  /\ \A p \in Properties \ {"precision"} : lastSet[p] = << >>
  /\ emitted = << [signal |-> "precisionChanged", seen |-> << 99 >>] >>

====
